---- MODULE Spec2Model ----
(***************************************************************************)
(* Model of the MAX30205 I2C temperature sensor driver (src/src/lib.rs).   *)
(*                                                                         *)
(* The driver is a set of blocking calls over an embedded-hal I2C bus.     *)
(* The state is the bus-side register file of the sensor, the driver       *)
(* instance the caller holds, and a record of the last call: its result    *)
(* and the bus transactions it issued, in order.  The outcome of every     *)
(* bus transaction (success, or failure with a transport error) is an      *)
(* input of the call.                                                      *)
(***************************************************************************)
EXTENDS Integers, Sequences, FiniteSets

VARIABLES
    dev,      \* bus address the sensor answers on
    config,   \* sensor register 1 (Configuration), one byte
    thyst,    \* sensor register 2 (Hysteresis threshold), byte written after the pointer
    tos,      \* sensor register 3 (Overtemperature threshold), byte written after the pointer
    temp,     \* sensor register 0 (Temperature), <<hi, lo>>
    driver,   \* addr of the MAX30205 value the caller holds, NoDriver before any
    last,     \* the last call: op, addr, bus outcomes met, Configuration before, ret, trace
    prev,     \* op, result tag and Configuration-before of the call before the last
    power,    \* history: the last power_down / power_up that succeeded on the sensor
              \* since a successful new ("none" if none, "unset" without such a new)
    inflight, \* per driver value: the transform_config it is inside of (op, reg), or Idle
    buslog    \* history: the transactions the driver values issued one by one, in bus order

vars == <<dev, config, thyst, tos, temp, driver, last, prev, power, inflight, buslog>>

-----------------------------------------------------------------------------
(* Bounds *)

\* number of distinguishable transport errors the bus can report
MaxErr == 2

\* number of transactions followed one by one on a bus shared by two driver values
MaxTxns == 4

-----------------------------------------------------------------------------
(* Constants of the program *)

\* enum Register
RegTemp   == 0
RegConfig == 1
RegThyst  == 2
RegTos    == 3

\* the candidates in the other order
AddressesAscending == <<72, 73>>

\* const ADDRESSES: &[u8] = &[0x49, 0x48]
ADDRESSES == <<73, 72>>

\* masks of the three config transforms
PowerSaveBit == 1
OneShotBit   == 128

\* the conversion factor 0.00390625 = FactorNum / FactorDen
FactorNum == 1
FactorDen == 256

Byte == 0 .. 255
NoDriver == 0
\* two MAX30205 values made for the same address
Instances == {"a", "b"}
Idle == [op |-> "idle", reg |-> 0]
AddrSet == {ADDRESSES[i] : i \in 1 .. Len(ADDRESSES)}
TransportErrors == 1 .. MaxErr

\* where the sensor sits (the other candidate address belongs to some other
\* device), and the register contents it can start from (or another device
\* can deliver)
SensorAddrs   == {72}
CfgSamples    == {1, 126}
ThystSamples  == {75}
TosSamples    == {80}
TempSamples   == {<<25, 0>>, <<231, 0>>}

-----------------------------------------------------------------------------
(* u8 / u16 / i16 arithmetic *)

Pow2(n) == 2 ^ n
Bit(x, i) == (x \div Pow2(i)) % 2

RECURSIVE BitFold(_, _, _, _)
\* combine two w-bit words bit by bit; op is "or" or "and"
BitFold(op, a, b, w) ==
    IF w = 0 THEN 0
    ELSE LET i == w - 1
             x == Bit(a, i)
             y == Bit(b, i)
             z == IF op = "or" THEN (IF x + y > 0 THEN 1 ELSE 0)
                               ELSE (IF x + y = 2 THEN 1 ELSE 0)
         IN  z * Pow2(i) + BitFold(op, a, b, i)

Or8(a, b)   == BitFold("or", a, b, 8)
And8(a, b)  == BitFold("and", a, b, 8)
Not8(a)     == 255 - a
Or16(a, b)  == BitFold("or", a, b, 16)
Shl16(a, n) == (a * Pow2(n)) % 65536
\* `as i16`: reinterpret the 16-bit pattern as two's complement
AsI16(u)    == IF u >= 32768 THEN u - 65536 ELSE u

-----------------------------------------------------------------------------
(* The bus *)

\* one attempted transaction; err = 0 when it succeeded
Txn(kind, addr, wr, rd, err) ==
    [kind |-> kind, addr |-> addr, wr |-> wr, rd |-> rd, err |-> err]

\* i2c.write(addr, bytes)
WriteTxn(addr, bytes, err) == Txn("write", addr, bytes, <<>>, err)
\* i2c.write_read(addr, bytes, buf): rd is what the buffer received
WriteReadTxn(addr, bytes, data, err) ==
    Txn("write_read", addr, bytes, IF err = 0 THEN data ELSE <<>>, err)

\* what a successful read of register reg at addr can deliver: the sensor's
\* register, or anything when another device answers on that address
ReadData(addr, reg) ==
    IF addr = dev
    THEN IF reg = RegConfig THEN {<<config>>}
         ELSE IF reg = RegTemp THEN {temp}
         ELSE IF reg = RegThyst THEN {<<thyst>>}
         ELSE {<<tos>>}
    ELSE IF reg = RegTemp THEN TempSamples
         ELSE {<<b>> : b \in CfgSamples}

\* register reg of the sensor after the transactions of trace, starting at old
RECURSIVE RegAfter(_, _, _)
RegAfter(reg, old, trace) ==
    IF trace = <<>> THEN old
    ELSE LET t == trace[Len(trace)]
             before == RegAfter(reg, old, SubSeq(trace, 1, Len(trace) - 1))
         IN  IF /\ t.kind = "write" /\ t.err = 0 /\ t.addr = dev
                /\ Len(t.wr) = 2 /\ t.wr[1] = reg
             THEN t.wr[2]
             ELSE before

\* results
Ok(v)   == [tag |-> "Ok", val |-> v]
Err(e)  == [tag |-> "Err", val |-> e]
Some(v) == [tag |-> "Some", val |-> v]
None    == [tag |-> "None", val |-> 0]

\* a finished call: addr is the address argument (self.addr for a method),
\* bus the outcomes the bus had for its transactions, pre the sensor's
\* Configuration when it started
Call(op, addr, bus, ret, trace) ==
    [op |-> op, addr |-> addr, bus |-> bus, pre |-> config, ret |-> ret, trace |-> trace]

\* the power history after call: a successful new on the sensor starts it, a
\* new that zeroed Configuration and then failed ends it, a successful
\* power_down / power_up on the sensor is its new last entry
PowerAfter(call) ==
    IF call.addr # dev THEN power
    ELSE IF call.op = "new"
         THEN IF call.ret.tag = "Ok" THEN "none"
              ELSE IF Len(call.trace) >= 2 THEN "unset"
              ELSE power
    ELSE IF call.op \in {"power_down", "power_up"} /\ call.ret.tag = "Ok" /\ power # "unset"
         THEN call.op
    ELSE power

\* state change common to every call: the sensor takes the writes, the call is recorded
Finish(call) ==
    /\ power'  = PowerAfter(call)
    /\ config' = RegAfter(RegConfig, config, call.trace)
    /\ thyst'  = RegAfter(RegThyst, thyst, call.trace)
    /\ tos'    = RegAfter(RegTos, tos, call.trace)
    /\ prev'   = [op |-> last.op, tag |-> last.ret.tag, pre |-> last.pre]
    /\ last'   = call
    /\ UNCHANGED <<dev, temp, inflight, buslog>>

-----------------------------------------------------------------------------
(* MAX30205::scan *)

RECURSIVE ScanFromGiveUp(_, _, _)
\* the loop leaving at the first probe that fails
ScanFromGiveUp(i, errs, trace) ==
    IF i > Len(ADDRESSES) THEN Call("scan", NoDriver, errs, None, trace)
    ELSE LET addr == ADDRESSES[i]
             t == WriteTxn(addr, <<>>, errs[addr])
         IN  IF t.err = 0
             THEN Call("scan", NoDriver, errs, Some(addr), Append(trace, t))
             ELSE Call("scan", NoDriver, errs, None, Append(trace, t))

RECURSIVE ScanFromKeepLast(_, _, _)
\* the loop probing every candidate and keeping the last that answered
ScanFromKeepLast(i, errs, trace) ==
    IF i > Len(ADDRESSES)
    THEN LET found == {k \in 1 .. Len(trace) : trace[k].err = 0}
         IN  IF found = {} THEN Call("scan", NoDriver, errs, None, trace)
             ELSE Call("scan", NoDriver, errs,
                       Some(trace[CHOOSE k \in found : \A j \in found : j <= k].addr), trace)
    ELSE ScanFromKeepLast(i + 1, errs,
                          Append(trace, WriteTxn(ADDRESSES[i], <<>>, errs[ADDRESSES[i]])))

RECURSIVE ScanFrom(_, _, _)
\* the loop over ADDRESSES from index i; errs[a] is the outcome of the probe of a
ScanFrom(i, errs, trace) ==
    IF i > Len(ADDRESSES) THEN Call("scan", NoDriver, errs, None, trace)
    ELSE LET addr == ADDRESSES[i]
             t == WriteTxn(addr, <<>>, errs[addr])
         IN  IF t.err = 0
             THEN Call("scan", NoDriver, errs, Some(addr), Append(trace, t))
             ELSE ScanFrom(i + 1, errs, Append(trace, t))

ScanCall(errs) == ScanFrom(1, errs, <<>>)

Scan ==
    \E errs \in [AddrSet -> {0} \cup TransportErrors] :
        /\ Finish(ScanCall(errs))
        /\ UNCHANGED driver

-----------------------------------------------------------------------------
(* MAX30205::new *)

\* new with the two threshold writes in the other order
NewCallTosFirst(addr, errs) ==
    LET w1 == WriteTxn(addr, <<RegConfig, 0>>, errs[1])
        w2 == WriteTxn(addr, <<RegTos, 0>>, errs[2])
        w3 == WriteTxn(addr, <<RegThyst, 0>>, errs[3])
    IN  IF w1.err # 0 THEN Call("new", addr, errs, Err(w1.err), <<w1>>)
        ELSE IF w2.err # 0 THEN Call("new", addr, errs, Err(w2.err), <<w1, w2>>)
        ELSE IF w3.err # 0 THEN Call("new", addr, errs, Err(w3.err), <<w1, w2, w3>>)
        ELSE Call("new", addr, errs, Ok(addr), <<w1, w2, w3>>)

\* new without the `?` on the second write
NewCallIgnoreSecond(addr, errs) ==
    LET w1 == WriteTxn(addr, <<RegConfig, 0>>, errs[1])
        w2 == WriteTxn(addr, <<RegThyst, 0>>, errs[2])
        w3 == WriteTxn(addr, <<RegTos, 0>>, errs[3])
    IN  IF w1.err # 0 THEN Call("new", addr, errs, Err(w1.err), <<w1>>)
        ELSE IF w3.err # 0 THEN Call("new", addr, errs, Err(w3.err), <<w1, w2, w3>>)
        ELSE Call("new", addr, errs, Ok(addr), <<w1, w2, w3>>)

\* new writing the hysteresis threshold twice and never the overtemperature one
NewCallThystTwice(addr, errs) ==
    LET w1 == WriteTxn(addr, <<RegConfig, 0>>, errs[1])
        w2 == WriteTxn(addr, <<RegThyst, 0>>, errs[2])
        w3 == WriteTxn(addr, <<RegThyst, 0>>, errs[3])
    IN  IF w1.err # 0 THEN Call("new", addr, errs, Err(w1.err), <<w1>>)
        ELSE IF w2.err # 0 THEN Call("new", addr, errs, Err(w2.err), <<w1, w2>>)
        ELSE IF w3.err # 0 THEN Call("new", addr, errs, Err(w3.err), <<w1, w2, w3>>)
        ELSE Call("new", addr, errs, Ok(addr), <<w1, w2, w3>>)

\* new zeroing Configuration last instead of first
NewCallConfigLast(addr, errs) ==
    LET w1 == WriteTxn(addr, <<RegThyst, 0>>, errs[1])
        w2 == WriteTxn(addr, <<RegTos, 0>>, errs[2])
        w3 == WriteTxn(addr, <<RegConfig, 0>>, errs[3])
    IN  IF w1.err # 0 THEN Call("new", addr, errs, Err(w1.err), <<w1>>)
        ELSE IF w2.err # 0 THEN Call("new", addr, errs, Err(w2.err), <<w1, w2>>)
        ELSE IF w3.err # 0 THEN Call("new", addr, errs, Err(w3.err), <<w1, w2, w3>>)
        ELSE Call("new", addr, errs, Ok(addr), <<w1, w2, w3>>)

\* errs[k] is the outcome of the k-th write
NewCall(addr, errs) ==
    LET w1 == WriteTxn(addr, <<RegConfig, 0>>, errs[1])
        w2 == WriteTxn(addr, <<RegThyst, 0>>, errs[2])
        w3 == WriteTxn(addr, <<RegTos, 0>>, errs[3])
    IN  IF w1.err # 0 THEN Call("new", addr, errs, Err(w1.err), <<w1>>)
        ELSE IF w2.err # 0 THEN Call("new", addr, errs, Err(w2.err), <<w1, w2>>)
        ELSE IF w3.err # 0 THEN Call("new", addr, errs, Err(w3.err), <<w1, w2, w3>>)
        ELSE Call("new", addr, errs, Ok(addr), <<w1, w2, w3>>)

\* the outcomes a call can meet: transactions after the first failure never happen
FailAt(n) ==
    {[k \in 1 .. n |-> 0]} \cup
    {[k \in 1 .. n |-> IF k = f THEN e ELSE 0] : f \in 1 .. n, e \in TransportErrors}

New ==
    \E addr \in AddrSet, errs \in FailAt(3) :
        LET call == NewCall(addr, errs)
        IN  /\ Finish(call)
            /\ driver' = IF call.ret.tag = "Ok" THEN call.ret.val ELSE driver

-----------------------------------------------------------------------------
(* MAX30205::transform_config and its three users *)

\* the transform applied to the byte new wrote instead of the byte read: 0x00 | 0x01
PowerDownTransOfZero(x) == Or8(0, PowerSaveBit)
\* |x| x | 0x01
PowerDownTrans(x)  == Or8(x, PowerSaveBit)

\* the mask without its complement: x & 0x01
PowerUpTransNoNot(x) == And8(x, PowerSaveBit)
\* |x| x & !0x01
PowerUpTrans(x)    == And8(x, Not8(PowerSaveBit))

\* a neighbouring bit in the mask: x | 0x40
UpdateOnceTransBit6(x) == Or8(x, 64)
\* the one-shot bit set and the power-saving bit dropped: (x | 0x80) & !0x01
UpdateOnceTransWakes(x) == And8(Or8(x, OneShotBit), Not8(PowerSaveBit))
\* both flag bits in the mask: x | 0x81
UpdateOnceTransBothBits(x) == Or8(x, Or8(OneShotBit, PowerSaveBit))
\* |x| x | 0x80
UpdateOnceTrans(x) == Or8(x, OneShotBit)

\* power_down flipping the bit instead of setting it: x ^ 0x01
ApplyTransToggle(op, x) ==
    CASE op = "power_down"  -> IF Bit(x, 0) = 1 THEN x - 1 ELSE x + 1
      [] op = "power_up"    -> PowerUpTrans(x)
      [] op = "update_once" -> UpdateOnceTrans(x)

\* trans(x) for the fn(u8) -> u8 that op hands to transform_config
ApplyTrans(op, x) ==
    CASE op = "power_down"  -> PowerDownTrans(x)
      [] op = "power_up"    -> PowerUpTrans(x)
      [] op = "update_once" -> UpdateOnceTrans(x)

\* transform_config without the `?` on the read: the write-back goes out anyway
TransformConfigIgnoreRead(op, self, data, errs) ==
    LET r == WriteReadTxn(self, <<RegConfig>>, data, errs[1])
        reg == IF r.err = 0 THEN r.rd ELSE <<0>>
        w == WriteTxn(self, <<RegConfig, ApplyTrans(op, reg[1])>>, 0)
    IN  IF r.err # 0 THEN Call(op, self, errs, Err(r.err), <<r, w>>)
        ELSE IF errs[2] # 0 THEN Call(op, self, errs, Err(errs[2]), <<r, WriteTxn(self, w.wr, errs[2])>>)
        ELSE Call(op, self, errs, Ok(0), <<r, w>>)

\* transform_config writing the result to the register after Configuration
TransformConfigNextReg(op, self, data, errs) ==
    LET r == WriteReadTxn(self, <<RegConfig>>, data, errs[1])
        reg == IF r.err = 0 THEN r.rd ELSE <<0>>
        w == WriteTxn(self, <<RegThyst, ApplyTrans(op, reg[1])>>, errs[2])
    IN  IF r.err # 0 THEN Call(op, self, errs, Err(r.err), <<r>>)
        ELSE IF w.err # 0 THEN Call(op, self, errs, Err(w.err), <<r, w>>)
        ELSE Call(op, self, errs, Ok(0), <<r, w>>)

\* transform_config as called by op
TransformConfig(op, self, data, errs) ==
    LET r == WriteReadTxn(self, <<RegConfig>>, data, errs[1])
        reg == IF r.err = 0 THEN r.rd ELSE <<0>>
        w == WriteTxn(self, <<RegConfig, ApplyTrans(op, reg[1])>>, errs[2])
    IN  IF r.err # 0 THEN Call(op, self, errs, Err(r.err), <<r>>)
        ELSE IF w.err # 0 THEN Call(op, self, errs, Err(w.err), <<r, w>>)
        ELSE Call(op, self, errs, Ok(0), <<r, w>>)

PowerDown ==
    /\ driver # NoDriver
    /\ \E data \in ReadData(driver, RegConfig), errs \in FailAt(2) :
           Finish(TransformConfig("power_down", driver, data, errs))
    /\ UNCHANGED driver

PowerUp ==
    /\ driver # NoDriver
    /\ \E data \in ReadData(driver, RegConfig), errs \in FailAt(2) :
           Finish(TransformConfig("power_up", driver, data, errs))
    /\ UNCHANGED driver

UpdateOnce ==
    /\ driver # NoDriver
    /\ \E data \in ReadData(driver, RegConfig), errs \in FailAt(2) :
           Finish(TransformConfig("update_once", driver, data, errs))
    /\ UNCHANGED driver

-----------------------------------------------------------------------------
(* transform_config one transaction at a time, for two driver values that
   share the sensor; nothing in the driver keeps one call from starting
   between the read and the write-back of another *)

\* line 48: i2c.write_read(self.addr, &[Config], &mut reg)?
ConfigRead(i, op, err) ==
    /\ driver # NoDriver
    /\ inflight[i] = Idle
    /\ Len(buslog) < MaxTxns
    /\ \E data \in ReadData(driver, RegConfig) :
           LET r == WriteReadTxn(driver, <<RegConfig>>, data, err)
           IN  /\ inflight' = IF r.err # 0 THEN inflight
                              ELSE [inflight EXCEPT ![i] = [op |-> op, reg |-> r.rd[1]]]
               /\ buslog' = Append(buslog, [inst |-> i, op |-> op, txn |-> r])
    /\ UNCHANGED <<dev, config, thyst, tos, temp, driver, last, prev, power>>

\* the byte written back, from the config as it is now instead of the byte read
WriteBackValueFresh(i) == ApplyTrans(inflight[i].op, config)
\* line 49: trans(reg[0])
WriteBackValue(i) == ApplyTrans(inflight[i].op, inflight[i].reg)

\* line 49: i2c.write(self.addr, &[Config, trans(reg[0])])?
ConfigWriteBack(i, err) ==
    /\ inflight[i] # Idle
    /\ Len(buslog) < MaxTxns
    /\ LET w == WriteTxn(driver, <<RegConfig, WriteBackValue(i)>>, err)
       IN  /\ config' = RegAfter(RegConfig, config, <<w>>)
           /\ buslog' = Append(buslog, [inst |-> i, op |-> inflight[i].op, txn |-> w])
    /\ inflight' = [inflight EXCEPT ![i] = Idle]
    /\ UNCHANGED <<dev, thyst, tos, temp, driver, last, prev, power>>

-----------------------------------------------------------------------------
(* MAX30205::get_temperature *)

\* ((res[0] as u16) << 8) | (res[1] as u16)
RawTemp(res) == Or16(Shl16(res[1], 8), res[2])
\* the conversion without the `as i16` step
CelsiusUnsigned(raw) == [num |-> raw * FactorNum, den |-> FactorDen]
\* res as i16 as f64 * 0.00390625: an exact f64 product, kept as a fraction
Celsius(raw) == [num |-> AsI16(raw) * FactorNum, den |-> FactorDen]

\* get_temperature answering from the previous call when that one succeeded
GetTemperatureCallCached(self, data, errs) ==
    LET r == WriteReadTxn(self, <<RegTemp>>, data, errs[1])
    IN  IF last.op = "get_temperature" /\ last.ret.tag = "Ok"
        THEN Call("get_temperature", self, errs, last.ret, <<>>)
        ELSE IF r.err # 0 THEN Call("get_temperature", self, errs, Err(r.err), <<r>>)
        ELSE Call("get_temperature", self, errs, Ok(Celsius(RawTemp(r.rd))), <<r>>)

GetTemperatureCall(self, data, errs) ==
    LET r == WriteReadTxn(self, <<RegTemp>>, data, errs[1])
    IN  IF r.err # 0 THEN Call("get_temperature", self, errs, Err(r.err), <<r>>)
        ELSE Call("get_temperature", self, errs, Ok(Celsius(RawTemp(r.rd))), <<r>>)

GetTemperature ==
    /\ driver # NoDriver
    /\ \E data \in ReadData(driver, RegTemp), errs \in FailAt(1) :
           Finish(GetTemperatureCall(driver, data, errs))
    /\ UNCHANGED driver

-----------------------------------------------------------------------------
(* The sensor *)

\* outside power-saving mode the sensor keeps refreshing its Temperature register
SensorConvert ==
    /\ Bit(config, 0) = 0
    /\ temp' \in TempSamples \ {temp}
    /\ UNCHANGED <<dev, config, thyst, tos, driver, last, prev, power, inflight, buslog>>

-----------------------------------------------------------------------------
(* Specifications *)

NoCall == [op |-> "none", addr |-> NoDriver, bus |-> <<>>, pre |-> 0,
           ret |-> Ok(0), trace |-> <<>>]

\* before any call: no driver value yet, the sensor holds whatever it holds
Init ==
    /\ dev \in SensorAddrs
    /\ config \in CfgSamples
    /\ thyst \in ThystSamples
    /\ tos \in TosSamples
    /\ temp \in TempSamples
    /\ driver = NoDriver
    /\ last = NoCall
    /\ prev = [op |-> "none", tag |-> "Ok", pre |-> 0]
    /\ power = "unset"
    /\ inflight = [i \in Instances |-> Idle]
    /\ buslog = <<>>

Next ==
    \/ Scan
    \/ New
    \/ PowerDown
    \/ PowerUp
    \/ UpdateOnce
    \/ GetTemperature
    \/ SensorConvert

Spec == Init /\ [][Next]_vars

\* a driver value bound to the sensor exists; Configuration holds any byte
InitCfg ==
    /\ dev \in SensorAddrs
    /\ config \in Byte
    /\ thyst = 0
    /\ tos = 0
    /\ temp = <<25, 0>>
    /\ driver = dev
    /\ last = NoCall
    /\ prev = [op |-> "none", tag |-> "Ok", pre |-> 0]
    /\ power = "unset"
    /\ inflight = [i \in Instances |-> Idle]
    /\ buslog = <<>>

NextCfg ==
    \/ PowerDown
    \/ PowerUp
    \/ UpdateOnce

SpecCfg == InitCfg /\ [][NextCfg]_vars

\* a driver value bound to the sensor exists; Temperature holds any two bytes
InitTemp ==
    /\ dev \in SensorAddrs
    /\ config = 0
    /\ thyst = 0
    /\ tos = 0
    /\ temp \in Byte \X Byte
    /\ driver = dev
    /\ last = NoCall
    /\ prev = [op |-> "none", tag |-> "Ok", pre |-> 0]
    /\ power = "none"
    /\ inflight = [i \in Instances |-> Idle]
    /\ buslog = <<>>

NextTemp == GetTemperature

SpecTemp == InitTemp /\ [][NextTemp]_vars

\* two driver values bound to the sensor, after new or with leftover Configuration
InitShared ==
    /\ dev \in SensorAddrs
    /\ config \in {0} \cup CfgSamples
    /\ thyst = 0
    /\ tos = 0
    /\ temp = <<25, 0>>
    /\ driver = dev
    /\ last = NoCall
    /\ prev = [op |-> "none", tag |-> "Ok", pre |-> 0]
    /\ power = "unset"
    /\ inflight = [i \in Instances |-> Idle]
    /\ buslog = <<>>

\* a transaction succeeds (0) or fails; which error it fails with plays no part here
SharedOutcomes == {0, 1}

NextShared ==
    \/ \E i \in Instances, op \in {"power_down", "power_up", "update_once"},
          err \in SharedOutcomes : ConfigRead(i, op, err)
    \/ \E i \in Instances, err \in SharedOutcomes : ConfigWriteBack(i, err)

SpecShared == InitShared /\ [][NextShared]_vars

-----------------------------------------------------------------------------
(* Properties of new *)

AllOk(call) == \A k \in DOMAIN call.bus : call.bus[k] = 0

\* C1: when every bus write succeeds, new(addr) issues exactly three write
\* transactions to addr and nothing else, in this order: [0x01, 0x00], then
\* [0x02, 0x00], then [0x03, 0x00], and returns a driver bound to addr.
C1_NewThreeWritesInOrder ==
    (last.op = "new" /\ AllOk(last)) =>
        /\ last.trace =
              << [kind |-> "write", addr |-> last.addr, wr |-> <<1, 0>>, rd |-> <<>>, err |-> 0],
                 [kind |-> "write", addr |-> last.addr, wr |-> <<2, 0>>, rd |-> <<>>, err |-> 0],
                 [kind |-> "write", addr |-> last.addr, wr |-> <<3, 0>>, rd |-> <<>>, err |-> 0] >>
        /\ last.ret = [tag |-> "Ok", val |-> last.addr]
        /\ driver = last.addr

C1_Witness ==
    /\ last.op = "new"
    /\ AllOk(last)
    /\ last.ret.tag = "Ok"
    /\ Len(last.trace) = 3

\* C2: if the k-th write of new (k in 1..3) fails, new issues no further
\* transaction (after a failed second write there is no third), returns that
\* transport error, and yields no driver instance.
C2_NewStopsAtFirstFailure ==
    \A k \in 1 .. 3 :
        (last.op = "new" /\ last.bus[k] # 0) =>
            /\ Len(last.trace) = k
            /\ \A i \in 1 .. k - 1 : last.trace[i].err = 0
            /\ last.trace[k].err = last.bus[k]
            /\ last.ret = [tag |-> "Err", val |-> last.bus[k]]

C2_Witness ==
    /\ last.op = "new"
    /\ last.bus[2] # 0
    /\ Len(last.trace) = 2
    /\ last.ret.tag = "Err"

-----------------------------------------------------------------------------
(* Properties of scan *)

ProbeOf(addr, err) ==
    [kind |-> "write", addr |-> addr, wr |-> <<>>, rd |-> <<>>, err |-> err]

\* C3: on a bus where only 0x48 acknowledges zero-length writes, scan returns
\* 0x48 after exactly two attempted transactions: a zero-length write to 0x49
\* (fails), then a zero-length write to 0x48 (succeeds).
C3_ScanOnly48 ==
    (last.op = "scan" /\ last.bus[73] # 0 /\ last.bus[72] = 0) =>
        /\ last.ret = [tag |-> "Some", val |-> 72]
        /\ last.trace = <<ProbeOf(73, last.bus[73]), ProbeOf(72, 0)>>

C3_Witness ==
    /\ last.op = "scan"
    /\ last.bus[73] # 0
    /\ last.bus[72] = 0
    /\ last.ret.tag = "Some"

\* C4: on a bus where neither 0x49 nor 0x48 acknowledges, scan returns None
\* after exactly two attempted transactions; no transport error reaches the
\* caller.
C4_ScanNoneFound ==
    (last.op = "scan" /\ last.bus[73] # 0 /\ last.bus[72] # 0) =>
        /\ last.ret = [tag |-> "None", val |-> 0]
        /\ last.trace = <<ProbeOf(73, last.bus[73]), ProbeOf(72, last.bus[72])>>

C4_Witness ==
    /\ last.op = "scan"
    /\ last.bus[73] # 0
    /\ last.bus[72] # 0
    /\ last.ret.tag = "None"
    /\ Len(last.trace) = 2

\* C5: scan returns the first candidate, in the order 0x49 then 0x48, whose
\* zero-length write succeeds, and stops there: whenever 0x49 acknowledges it
\* returns 0x49 after exactly one transaction and never probes 0x48, whether
\* or not 0x48 would acknowledge.
C5_ScanFirstAckWins ==
    /\ (last.op = "scan" /\ last.bus[73] = 0) =>
           /\ last.ret = [tag |-> "Some", val |-> 73]
           /\ last.trace = <<ProbeOf(73, 0)>>
    /\ (last.op = "scan" /\ last.ret.tag = "Some") =>
           /\ last.bus[last.ret.val] = 0
           /\ last.trace[Len(last.trace)].addr = last.ret.val
           /\ \A i \in 1 .. Len(last.trace) - 1 : last.trace[i].err # 0

C5_Witness ==
    /\ last.op = "scan"
    /\ last.bus[73] = 0
    /\ last.bus[72] = 0
    /\ last.ret = [tag |-> "Some", val |-> 73]
    /\ Len(last.trace) = 1

-----------------------------------------------------------------------------
(* Properties of the config transforms; checked under SpecCfg, where the
   Configuration register starts from every byte *)

\* C6: for every initial Configuration byte c, a successful power_down
\* followed by a successful power_up leaves Configuration with bits 1-7 equal
\* to those of c and bit 0 equal to 0.
C6_PowerDownUpRoundTrip ==
    ( /\ prev.op = "power_down" /\ prev.tag = "Ok"
      /\ last.op = "power_up" /\ last.ret.tag = "Ok" ) =>
        /\ \A i \in 1 .. 7 : Bit(config, i) = Bit(prev.pre, i)
        /\ Bit(config, 0) = 0

C6_Witness ==
    /\ prev.op = "power_down" /\ prev.tag = "Ok"
    /\ last.op = "power_up" /\ last.ret.tag = "Ok"
    /\ prev.pre = 254
    /\ last.pre = 255
    /\ config = 254

\* C7: for every prior Configuration byte c, a successful update_once writes
\* back a byte whose bit 7 is 1 and whose bit 0 equals bit 0 of c.
C7_UpdateOnceBits ==
    (last.op = "update_once" /\ last.ret.tag = "Ok") =>
        LET w == last.trace[2]
        IN  /\ w.kind = "write" /\ Len(w.wr) = 2 /\ w.wr[1] = 1
            /\ Bit(w.wr[2], 7) = 1
            /\ Bit(w.wr[2], 0) = Bit(last.pre, 0)
            /\ config = w.wr[2]

C7_Witness ==
    /\ last.op = "update_once" /\ last.ret.tag = "Ok"
    /\ last.pre = 2
    /\ config = 130

-----------------------------------------------------------------------------
(* Properties of get_temperature; checked under SpecTemp, where the
   Temperature register starts from every pair of bytes *)

\* C8: for every byte pair (hi, lo) read from the Temperature register,
\* get_temperature returns S * 0.00390625, S being hi*256+lo read as a signed
\* 16-bit two's-complement integer: the result times 256 is exactly S; e.g.
\* (0x19, 0x00) gives 25.0 and (0xE7, 0x00) gives -25.0.
C8_TemperatureConversion ==
    (last.op = "get_temperature" /\ last.ret.tag = "Ok") =>
        LET hi == temp[1]
            lo == temp[2]
            u  == hi * 256 + lo
            S  == IF u < 32768 THEN u ELSE u - 65536
            r  == last.ret.val
        IN  /\ r.den > 0
            /\ r.num * 256 = S * r.den
            /\ (hi = 25 /\ lo = 0) => r.num = 25 * r.den
            /\ (hi = 231 /\ lo = 0) => r.num = (-25) * r.den

C8_Witness ==
    /\ last.op = "get_temperature" /\ last.ret.tag = "Ok"
    /\ temp = <<231, 0>>
    /\ last.ret.val.num = (-25) * last.ret.val.den

-----------------------------------------------------------------------------
(* update_once outside power-saving mode *)

\* C9: when Configuration bit 0 is 0, update_once has no effect: it is a
\* no-op with no observable change to the device's state.
C9_UpdateOnceNoOpWhenAwake ==
    (last.op = "update_once" /\ last.addr = dev /\ Bit(last.pre, 0) = 0) =>
        config = last.pre

-----------------------------------------------------------------------------
(* State after new *)

\* C10: whenever new returns a driver instance, the Configuration,
\* Hysteresis-Threshold and Overtemperature-Threshold registers of the sensor
\* it addressed all hold 0x00 whatever they held before, so power-saving mode
\* is disabled (Configuration bit 0 = 0).
C10_NewZeroesRegisters ==
    (last.op = "new" /\ last.ret.tag = "Ok" /\ last.addr = dev) =>
        /\ config = 0
        /\ thyst = 0
        /\ tos = 0
        /\ Bit(config, 0) = 0

\* the first call is a successful new on a sensor whose three registers were nonzero
C10_Witness ==
    /\ last.op = "new" /\ last.ret.tag = "Ok" /\ last.addr = dev
    /\ prev.op = "none"
    /\ last.pre = 126
    /\ config = 0 /\ thyst = 0 /\ tos = 0

-----------------------------------------------------------------------------
(* Failure and frame properties of the config transforms (SpecCfg) *)

TransformOps == {"power_down", "power_up", "update_once"}

\* C11: in power_down, power_up and update_once a failure of the
\* Configuration read makes the call return that transport error without
\* issuing the write-back, so the register is unchanged; a failure of the
\* write-back returns that transport error; in neither case is a transaction
\* retried or a further one issued.
C11_TransformAbortsOnFailure ==
    /\ (last.op \in TransformOps /\ last.bus[1] # 0) =>
           /\ Len(last.trace) = 1
           /\ last.trace[1].kind = "write_read"
           /\ last.trace[1].err = last.bus[1]
           /\ last.ret = [tag |-> "Err", val |-> last.bus[1]]
           /\ config = last.pre
    /\ (last.op \in TransformOps /\ last.bus[1] = 0 /\ last.bus[2] # 0) =>
           /\ Len(last.trace) = 2
           /\ last.trace[1].kind = "write_read" /\ last.trace[1].err = 0
           /\ last.trace[2].kind = "write" /\ last.trace[2].err = last.bus[2]
           /\ last.ret = [tag |-> "Err", val |-> last.bus[2]]

\* a power_down whose read failed on a register with bit 0 clear
C11_Witness ==
    /\ last.op = "power_down"
    /\ last.bus[1] # 0
    /\ last.ret.tag = "Err"
    /\ Len(last.trace) = 1
    /\ last.pre = 126
    /\ config = 126

\* C12: for every prior Configuration byte c, a successful power_down writes
\* back c with bit 0 set and a successful power_up writes back c with bit 0
\* cleared, each leaving bits 1-7 as in c; the byte written back is computed
\* from the value just read from the device, never from a value kept in the
\* driver.
C12_PowerBitOnly ==
    (last.op \in {"power_down", "power_up"} /\ last.ret.tag = "Ok") =>
        LET c == last.trace[1].rd[1]
            w == last.trace[2].wr
        IN  /\ last.trace[1].kind = "write_read" /\ last.trace[1].wr = <<1>>
            /\ (last.addr = dev => c = last.pre)
            /\ last.trace[2].kind = "write" /\ Len(w) = 2 /\ w[1] = 1
            /\ Bit(w[2], 0) = (IF last.op = "power_down" THEN 1 ELSE 0)
            /\ \A i \in 1 .. 7 : Bit(w[2], i) = Bit(c, i)
            /\ (last.addr = dev => config = w[2])

\* a power_down on a register that nobody zeroed: 0xFE becomes 0xFF
C12_Witness ==
    /\ last.op = "power_down" /\ last.ret.tag = "Ok"
    /\ last.pre = 254
    /\ last.trace[2].wr = <<1, 255>>
    /\ config = 255

\* C13: power_down, power_up and update_once are idempotent on the
\* Configuration register: for every initial byte, the same operation applied
\* twice in succession (both successful) leaves the value the first one left,
\* and the second still issues a full read followed by a write-back.
C13_TransformIdempotent ==
    ( /\ last.op \in TransformOps /\ prev.op = last.op
      /\ prev.tag = "Ok" /\ last.ret.tag = "Ok" ) =>
        /\ config = last.pre
        /\ last.trace =
              << [kind |-> "write_read", addr |-> last.addr, wr |-> <<1>>,
                  rd |-> <<last.pre>>, err |-> 0],
                 [kind |-> "write", addr |-> last.addr, wr |-> <<1, config>>,
                  rd |-> <<>>, err |-> 0] >>

\* power_down twice from 0x7E: the second reads 0x7F and writes 0x7F again
C13_Witness ==
    /\ last.op = "power_down" /\ prev.op = "power_down"
    /\ prev.tag = "Ok" /\ last.ret.tag = "Ok"
    /\ prev.pre = 126
    /\ last.pre = 127
    /\ config = 127
    /\ Len(last.trace) = 2

-----------------------------------------------------------------------------
(* Frame properties over whole calls (Spec) *)

\* the step is a call of the driver, not a step of the sensor
IsCall == <<last, prev>>' # <<last, prev>>

\* C14: every call of get_temperature issues exactly one bus transaction, a
\* write-then-read of register byte 0x00 reading 2 bytes from the driver's
\* address, and no write; it leaves the Configuration and threshold registers
\* unchanged, returns the transport error unchanged if the transaction fails,
\* and its value is that of the bytes just read, not of an earlier call.
C14_GetTemperatureOneRead ==
    [][ (IsCall /\ last'.op = "get_temperature") =>
          LET t == last'.trace[1]
              e == last'.bus[1]
          IN  /\ Len(last'.trace) = 1
              /\ t.kind = "write_read" /\ t.addr = driver /\ t.wr = <<0>> /\ t.err = e
              /\ config' = config /\ thyst' = thyst /\ tos' = tos
              /\ e # 0 => last'.ret = [tag |-> "Err", val |-> e]
              /\ e = 0 =>
                   LET u == t.rd[1] * 256 + t.rd[2]
                       S == IF u < 32768 THEN u ELSE u - 65536
                   IN  /\ Len(t.rd) = 2
                       /\ driver = dev => t.rd = temp
                       /\ last'.ret.tag = "Ok"
                       /\ last'.ret.val.num * 256 = S * last'.ret.val.den
      ]_vars

\* two successful readings in a row, the second of -25.0
C14_Witness ==
    /\ last.op = "get_temperature" /\ last.ret.tag = "Ok"
    /\ prev.op = "get_temperature" /\ prev.tag = "Ok"
    /\ last.addr = dev
    /\ temp = <<231, 0>>
    /\ last.ret.val.num = -6400
    /\ Len(last.trace) = 1

\* C15: when new fails at its second or third write, the registers already
\* written are left at 0x00 (no rollback) and the registers not yet written
\* keep their previous contents; after a failure on the second write
\* Configuration is 0x00 while Overtemperature-Threshold holds its pre-call
\* value.
C15_NewPartialInit ==
    [][ (IsCall /\ last'.op = "new" /\ last'.addr = dev) =>
          /\ last'.bus[2] # 0 => (config' = 0 /\ tos' = tos)
          /\ last'.bus[3] # 0 => (config' = 0 /\ thyst' = 0 /\ tos' = tos)
      ]_vars

\* the first call is a new that failed at its second write
C15_Witness ==
    /\ last.op = "new" /\ last.addr = dev
    /\ prev.op = "none"
    /\ last.bus[2] # 0
    /\ last.pre = 126
    /\ config = 0
    /\ tos = 80

\* C16: after new, no operation of the driver (scan, power_down, power_up,
\* update_once, get_temperature, succeeding or failing) writes the
\* Hysteresis-Threshold, Overtemperature-Threshold or Temperature register:
\* the only writes with a payload are two-byte writes to Configuration, so
\* both thresholds stay 0x00 after a successful new.
C16_OnlyConfigWritten ==
    /\ [] ( last.op \in {"scan", "power_down", "power_up", "update_once", "get_temperature"} =>
              \A i \in 1 .. Len(last.trace) :
                  (last.trace[i].kind = "write" /\ last.trace[i].wr # <<>>) =>
                      (Len(last.trace[i].wr) = 2 /\ last.trace[i].wr[1] = 1) )
    /\ [] ( power # "unset" => (thyst = 0 /\ tos = 0) )
    /\ [][ (IsCall /\ last'.op = "new") \/ (thyst' = thyst /\ tos' = tos) ]_vars

C16_Witness ==
    /\ power = "power_down"
    /\ last.op = "update_once" /\ last.ret.tag = "Ok" /\ last.addr = dev
    /\ prev.op = "get_temperature"
    /\ thyst = 0 /\ tos = 0

\* C17: starting from a successful new, with only this driver modifying the
\* device, after any sequence of power_down, power_up, update_once and
\* get_temperature calls (successful or failed) bits 1-6 of Configuration
\* are 0: its value is one of 0x00, 0x01, 0x80, 0x81.
C17_ConfigValues ==
    power # "unset" =>
        /\ \A i \in 1 .. 6 : Bit(config, i) = 0
        /\ config \in {0, 1, 128, 129}

C17_Witness ==
    /\ power = "power_down"
    /\ last.op = "update_once" /\ last.ret.tag = "Ok" /\ last.addr = dev
    /\ config = 129

\* C18: starting from a successful new, with only this driver modifying the
\* device, Configuration bit 0 is 1 exactly when the most recent successfully
\* completed power_down or power_up was a power_down (0 if there has been
\* none); update_once, get_temperature, scan and operations that fail at
\* their read step never change bit 0.
C18_PowerBitFollowsLastPowerCall ==
    /\ [] ( power # "unset" => (Bit(config, 0) = 1 <=> power = "power_down") )
    /\ [][ ( IsCall /\ ( \/ last'.op \in {"update_once", "get_temperature", "scan"}
                         \/ (last'.op \in {"power_down", "power_up"} /\ last'.bus[1] # 0) ) )
           => Bit(config', 0) = Bit(config, 0) ]_vars

\* a successful update_once right after a successful power_down from 0x00
C18_Witness ==
    /\ power = "power_down"
    /\ Bit(config, 0) = 1
    /\ last.op = "update_once" /\ last.ret.tag = "Ok" /\ last.addr = dev
    /\ prev.op = "power_down" /\ prev.tag = "Ok" /\ prev.pre = 0

-----------------------------------------------------------------------------
(* Two driver values on one sensor (SpecShared) *)

\* the transforms as the documentation words them
SetBit0(c)   == IF c % 2 = 1 THEN c ELSE c + 1
ClearBit0(c) == IF c % 2 = 1 THEN c - 1 ELSE c
SetBit7(c)   == IF c >= 128 THEN c ELSE c + 128
Transformed(op, c) ==
    CASE op = "power_down"  -> SetBit0(c)
      [] op = "power_up"    -> ClearBit0(c)
      [] op = "update_once" -> SetBit7(c)

\* positions in buslog of the write-backs that reached the register
WritesDone == {k \in 1 .. Len(buslog) :
                  buslog[k].txn.kind = "write" /\ buslog[k].txn.err = 0}
\* the read that the write-back at position k belongs to
ReadOf(k) == CHOOSE r \in 1 .. k - 1 :
                 /\ buslog[r].inst = buslog[k].inst
                 /\ buslog[r].txn.kind = "write_read" /\ buslog[r].txn.err = 0
                 /\ \A q \in r + 1 .. k - 1 : buslog[q].inst # buslog[k].inst
\* no write-back reached the register strictly between positions a and b
NoWriteBetween(a, b) == \A q \in WritesDone : ~(a < q /\ q < b)
WrittenAt(k) == buslog[k].txn.wr[2]
ReadAt(k) == buslog[k].txn.rd[1]

\* C19: the read and the write-back of a power_down / power_up / update_once
\* are two bus transactions with nothing locked in between.  If two driver
\* values on the same sensor both read Configuration before either writes
\* back, the later write-back is computed from the byte read before the
\* earlier one and overwrites it (from 0x00, power_down and update_once end
\* at 0x80 or 0x01, not 0x81); when the calls do not overlap, Configuration
\* ends as the two transforms applied in order, whichever value issued them.
C19_LostUpdateWhenInterleaved ==
    \A w1, w2 \in WritesDone :
        (w1 < w2 /\ NoWriteBetween(w1, w2)) =>
            LET r1 == ReadOf(w1)
                r2 == ReadOf(w2)
                after == IF \E q \in WritesDone : q > w2 THEN WrittenAt(w2) ELSE config
            IN  /\ WrittenAt(w2) = after
                \* overlapping: the second call read before the first wrote back
                /\ (r2 < w1 /\ buslog[w1].inst # buslog[w2].inst) =>
                       /\ after = Transformed(buslog[w2].op, ReadAt(r2))
                       /\ ( /\ ReadAt(r1) = 0 /\ ReadAt(r2) = 0
                            /\ {buslog[w1].op, buslog[w2].op} = {"power_down", "update_once"} ) =>
                              (after \in {1, 128} /\ after # 129)
                \* one after the other
                /\ (w1 < r2 /\ NoWriteBetween(r1, w1)) =>
                       after = Transformed(buslog[w2].op,
                                           Transformed(buslog[w1].op, ReadAt(r1)))

\* both read 0x00, power_down writes 0x01, then update_once writes 0x80 over it
C19_Witness ==
    /\ Len(buslog) = 4
    /\ buslog[1].inst # buslog[2].inst
    /\ buslog[1].op = "power_down" /\ buslog[2].op = "update_once"
    /\ buslog[1].txn.rd = <<0>> /\ buslog[2].txn.rd = <<0>>
    /\ buslog[3].inst = buslog[1].inst /\ buslog[3].txn.wr = <<1, 1>> /\ buslog[3].txn.err = 0
    /\ buslog[4].inst = buslog[2].inst /\ buslog[4].txn.wr = <<1, 128>> /\ buslog[4].txn.err = 0
    /\ config = 128

====
